---- MODULE Spec2Model ----
(***************************************************************************)
(* Model of busmaster_converter.py: the DBC parser, the BusMaster log      *)
(* parser, SignalDecoder.extract_signal_value and the row loop of          *)
(* convert_log_to_csv.                                                     *)
(*                                                                         *)
(* Python integers are unbounded, and the decoder works on a 64-bit        *)
(* payload integer.  An integer is therefore modelled by its sign and the  *)
(* set of the positions of the 1 bits of its magnitude (bit 0 = least      *)
(* significant): 5 is [neg |-> FALSE, mag |-> {0, 2}].  factor and offset  *)
(* are taken from the integers, for which Python computes                  *)
(* raw * factor + offset exactly; the rounding of a float product of more  *)
(* than 53 bits is not represented.                                        *)
(***************************************************************************)
EXTENDS Integers, Sequences, FiniteSets

VARIABLES
    pc,               \* position in convert_log_to_csv
    messages,         \* DBCParser.messages: can_id -> DBCMessage
    current_message,  \* DBCParser.parse_file: can_id of current_message, or NoMessage
    dbc_lines,        \* number of DBC lines read so far
    can_messages,     \* BusMasterLogParser.parse_file: list of CANMessage
    line_num,         \* number of log lines read so far
    all_signals,      \* sorted list of the signal names (the CSV columns)
    rrow,             \* counter of successfully decoded signals
    row,              \* the row buffer, or NoRow before the first frame
    csv,              \* rows written after the header
    frame_idx,        \* number of frames the loop has processed
    d_pc,             \* decoder harness: position
    d_line,           \* decoder harness: the log line
    d_signal,         \* decoder harness: the DBCSignal
    d_message,        \* decoder harness: the parsed CANMessage
    d_value           \* decoder harness: result of extract_signal_value

vars == <<pc, messages, current_message, dbc_lines, can_messages, line_num,
          all_signals, rrow, row, csv, frame_idx,
          d_pc, d_line, d_signal, d_message, d_value>>

convVars == <<pc, messages, current_message, dbc_lines, can_messages, line_num,
              all_signals, rrow, row, csv, frame_idx>>

decVars == <<d_pc, d_line, d_signal, d_message, d_value>>

(***************************************************************************)
(* Bounds of the model.                                                    *)
(***************************************************************************)
MaxStartBit == 66
MaxBitSize == 65
MaxDbcLines == 4
MaxLogLines == 3

(***************************************************************************)
(* Unbounded integers.                                                     *)
(***************************************************************************)
SetMax(S) == CHOOSE m \in S : \A x \in S : x <= m

RECURSIVE MagOfNat(_)
\* the bit positions of a small natural number
MagOfNat(n) ==
    IF n = 0 THEN {}
    ELSE (IF n % 2 = 1 THEN {0} ELSE {}) \cup {k + 1 : k \in MagOfNat(n \div 2)}

RECURSIVE MagAdd(_, _)
\* a + b on magnitudes: sum bits without carry, then add the carries
MagAdd(a, b) ==
    IF b = {} THEN a
    ELSE MagAdd((a \cup b) \ (a \cap b), {k + 1 : k \in a \cap b})

RECURSIVE MagSub(_, _)
\* a - b on magnitudes, for a >= b: difference bits, then subtract the borrows
MagSub(a, b) ==
    IF b = {} THEN a
    ELSE MagSub((a \cup b) \ (a \cap b), {k + 1 : k \in b \ a})

MagLess(a, b) ==
    LET d == (a \cup b) \ (a \cap b) IN d # {} /\ SetMax(d) \in b

BigInt(neg, mag) == [isNone |-> FALSE, neg |-> neg /\ mag # {}, mag |-> mag]

None == [isNone |-> TRUE, neg |-> FALSE, mag |-> {}]

IntOfSmall(n) == IF n < 0 THEN BigInt(TRUE, MagOfNat(-n)) ELSE BigInt(FALSE, MagOfNat(n))

IntAdd(x, y) ==
    IF x.neg = y.neg THEN BigInt(x.neg, MagAdd(x.mag, y.mag))
    ELSE IF MagLess(x.mag, y.mag) THEN BigInt(y.neg, MagSub(y.mag, x.mag))
    ELSE BigInt(x.neg, MagSub(x.mag, y.mag))

IntSub(x, y) == IntAdd(x, BigInt(~y.neg, y.mag))

RECURSIVE MagMulSmall(_, _)
MagMulSmall(a, n) == IF n = 0 THEN {} ELSE MagAdd(a, MagMulSmall(a, n - 1))

\* x * f for a small integer f
IntMulSmall(x, f) ==
    IF f < 0 THEN BigInt(~x.neg, MagMulSmall(x.mag, -f))
    ELSE BigInt(x.neg, MagMulSmall(x.mag, f))

\* x >> n and 1 << n, for n >= 0 (Python raises ValueError for n < 0)
ShiftRight(x, n) == BigInt(FALSE, {k - n : k \in {j \in x.mag : j >= n}})

OneShiftLeft(n) == BigInt(FALSE, {n})

\* x & y for non-negative x, y
BitAnd(x, y) == BigInt(FALSE, x.mag \cap y.mag)

(***************************************************************************)
(* Text fields.  A run of digits is a sequence of digit values; a payload  *)
(* string is a sequence of two-digit hexadecimal pairs.                    *)
(***************************************************************************)
RECURSIVE int(_, _)
\* int(text) and int(text, 16)
int(digits, base) ==
    IF Len(digits) = 0 THEN 0
    ELSE int(SubSeq(digits, 1, Len(digits) - 1), base) * base + digits[Len(digits)]

\* bytes.fromhex(data_str.replace(' ', ''))
fromhex(data_str) == [i \in 1..Len(data_str) |-> data_str[i][1] * 16 + data_str[i][2]]

(***************************************************************************)
(* BusMasterLogParser.parse_file, the body of its loop for one line.       *)
(* A line is blank, does not match log_pattern ("junk"), or matches        *)
(* ("frame") and then carries the regular expression's groups.             *)
(***************************************************************************)
NoMatch == [matched |-> FALSE]

CANMessage(timestamp, direction, channel, can_id, dlc, data) ==
    [matched |-> TRUE, timestamp |-> timestamp, direction |-> direction,
     channel |-> channel, can_id |-> can_id, dlc |-> dlc, data |-> data]

parse_log_line(line) ==
    IF line.kind # "frame" THEN NoMatch
    ELSE LET data_bytes == IF Len(line.data_str) > 0 THEN fromhex(line.data_str) ELSE <<>>
         IN  CANMessage(line.timestamp, line.direction, int(line.channel, 10),
                        int(line.can_id, 16), int(line.dlc, 10), data_bytes)

(***************************************************************************)
(* SignalDecoder.extract_signal_value                                      *)
(***************************************************************************)
DBCSignal(name, sb, size, le, is_signed, factor, offset, minimum, maximum, unit) ==
    [name |-> name, start_bit |-> sb, size |-> size,
     is_little_endian |-> le, is_signed |-> is_signed,
     factor |-> factor, offset |-> offset,
     minimum |-> minimum, maximum |-> maximum, unit |-> unit]

\* mutant: the payload is padded with 0xFF bytes
data_padded_ff(data) == data \o [i \in 1..(8 - Len(data)) |-> 255]

\* data + b'\x00' * (8 - len(data))
data_padded(data) == data \o [i \in 1..(8 - Len(data)) |-> 0]

\* int.from_bytes(data_padded, byteorder='little')
from_bytes_little(bytes) ==
    BigInt(FALSE, UNION {{8 * (i - 1) + j : j \in {b \in 0..7 : (bytes[i] \div 2^b) % 2 = 1}}
                         : i \in 1..Len(bytes)})

\* mutant: the Motorola conversion without the "+ 1"
start_bit_off_by_one(signal) ==
    IF signal.is_little_endian THEN signal.start_bit
    ELSE LET byte_pos == signal.start_bit \div 8
             bit_pos == signal.start_bit % 8
         IN  byte_pos * 8 + (7 - bit_pos) - signal.size

\* the effective start bit
start_bit(signal) ==
    IF signal.is_little_endian THEN signal.start_bit
    ELSE LET byte_pos == signal.start_bit \div 8
             bit_pos == signal.start_bit % 8
         IN  byte_pos * 8 + (7 - bit_pos) - signal.size + 1

\* (1 << signal.size) - 1
mask(signal) == IntSub(OneShiftLeft(signal.size), IntOfSmall(1))

\* raw_value after the sign handling, or None where Python raises ValueError
\* (negative shift count), which the except clause turns into None
raw_value(data, signal) ==
    LET data_int == from_bytes_little(data_padded(data))
        sb == start_bit(signal)
    IN  IF signal.size < 0 \/ sb < 0 THEN None
        ELSE LET raw == BitAnd(ShiftRight(data_int, sb), mask(signal))
             IN  IF ~signal.is_signed THEN raw
                 ELSE IF signal.size - 1 < 0 THEN None
                 ELSE IF BitAnd(raw, OneShiftLeft(signal.size - 1)).mag # {}
                      THEN IntSub(raw, OneShiftLeft(signal.size))
                      ELSE raw

\* raw_value * signal.factor + signal.offset
physical_value(raw, signal) ==
    IntAdd(IntMulSmall(raw, signal.factor), IntOfSmall(signal.offset))

\* mutant: no check for the empty payload
extract_signal_value_no_empty_check(data, signal) ==
    LET raw == raw_value(data, signal)
    IN  IF raw.isNone THEN None ELSE physical_value(raw, signal)

extract_signal_value(data, signal) ==
    IF Len(data) = 0 THEN None
    ELSE LET raw == raw_value(data, signal)
         IN  IF raw.isNone THEN None ELSE physical_value(raw, signal)

(***************************************************************************)
(* DBCParser.parse_file, the body of its loop for one line.  A line        *)
(* matches message_pattern ("BO"), matches signal_pattern ("SG"), or       *)
(* neither ("other"); a matching line carries the groups.  A numeric group *)
(* of the signal pattern may be empty, a number, or text float() rejects   *)
(* (a lone sign or dot).                                                   *)
(***************************************************************************)
NoMessage == -1

DBCMessage(can_id, name, dlc, signals) ==
    [can_id |-> can_id, name |-> name, dlc |-> dlc, signals |-> signals]

Put(dict, key, value) ==
    [k \in DOMAIN dict \cup {key} |-> IF k = key THEN value ELSE dict[k]]

NumText(n) == [text |-> "number", value |-> n]

EmptyText == [text |-> "empty", value |-> 0]

BadText == [text |-> "bad", value |-> 0]

\* float(group) if group else default
float_or(group, default) == IF group.text = "empty" THEN default ELSE group.value

\* lines 109-115: factor, offset, minimum, maximum
float_fields(line) ==
    IF \E g \in {line.factor, line.offset, line.minimum, line.maximum} : g.text = "bad"
    THEN <<1, 0, 0, 0>>
    ELSE <<float_or(line.factor, 1), float_or(line.offset, 0),
           float_or(line.minimum, 0), float_or(line.maximum, 0)>>

parse_dbc_line(msgs, cur, line) ==
    IF line.kind = "BO"
    THEN LET can_id == int(line.can_id, 10)
         IN  [messages |-> Put(msgs, can_id,
                               DBCMessage(can_id, line.name, int(line.dlc, 10), <<>>)),
              current_message |-> can_id]
    ELSE IF line.kind = "SG" /\ cur # NoMessage
    THEN LET f == float_fields(line)
             signal == DBCSignal(line.name, int(line.start_bit, 10), int(line.size, 10),
                                 line.endian = "1", line.sign = "-",
                                 f[1], f[2], f[3], f[4], line.unit)
         IN  [messages |-> [msgs EXCEPT ![cur].signals = Put(@, line.name, signal)],
              current_message |-> cur]
    ELSE [messages |-> msgs, current_message |-> cur]

(***************************************************************************)
(* convert_log_to_csv                                                      *)
(***************************************************************************)
\* the order sorted() gives the signal names of the model
NameOrder == <<"A", "B", "C">>

\* lines 248-253: sorted(list(all_signals))
sorted_signal_names(msgs) ==
    SelectSeq(NameOrder,
              LAMBDA n : \E id \in DOMAIN msgs : n \in DOMAIN msgs[id].signals)

\* all_signals.index(signal_name)
index(seq, x) == (CHOOSE i \in 1..Len(seq) : seq[i] = x /\ \A j \in 1..(i - 1) : seq[j] # x) - 1

\* mutant: an unknown identifier falls back to some definition
frame_signals_fallback(msgs, can_id) ==
    IF can_id \in DOMAIN msgs THEN msgs[can_id].signals
    ELSE msgs[CHOOSE id \in DOMAIN msgs : TRUE].signals

\* lines 273-277: the signals iterated for a frame
frame_signals(msgs, can_id) ==
    IF can_id \in DOMAIN msgs THEN msgs[can_id].signals ELSE <<>>

\* mutant: a failing signal aborts the decoding of the frame
decode_frame_abort(data, signals) ==
    IF \E n \in DOMAIN signals : extract_signal_value(data, signals[n]).isNone
    THEN [n \in DOMAIN signals |-> None]
    ELSE [n \in DOMAIN signals |-> extract_signal_value(data, signals[n])]

\* lines 277-280: the value decoded for each signal of the message
decode_frame(data, signals) ==
    [n \in DOMAIN signals |-> extract_signal_value(data, signals[n])]

\* mutant: a fresh row for every frame
needs_new_row_always(counter) == TRUE

\* line 269
needs_new_row(counter) == counter = 0

\* line 270
new_row(timestamp, columns) == <<timestamp>> \o [i \in 1..Len(columns) |-> None]

\* lines 269-283: the row buffer after one frame; Python's row[j] is row[j + 1] here
row_after(buffer, counter, can_message, msgs, columns) ==
    LET base == IF needs_new_row(counter) THEN new_row(can_message.timestamp, columns)
                ELSE buffer
        signals == frame_signals(msgs, can_message.can_id)
        value == decode_frame(can_message.data, signals)
        decoded == {n \in DOMAIN signals : ~value[n].isNone}
        signal_index(n) == index(columns, n) + 1
    IN  [i \in 1..Len(base) |->
            IF \E n \in decoded : signal_index(n) + 1 = i
            THEN value[CHOOSE n \in decoded : signal_index(n) + 1 = i]
            ELSE base[i]]

\* lines 281-283: rrow after one frame
rrow_after(counter, can_message, msgs) ==
    LET signals == frame_signals(msgs, can_message.can_id)
        value == decode_frame(can_message.data, signals)
    IN  counter + Cardinality({n \in DOMAIN signals : ~value[n].isNone})

(***************************************************************************)
(* Decoder harness: one log line is parsed and one signal decoded from it. *)
(***************************************************************************)
HexPairs(bytes) == [i \in 1..Len(bytes) |-> <<bytes[i] \div 16, bytes[i] % 16>>]

Payloads ==
    { <<19, 36, 194, 161, 0, 0, 144, 255>>,
      <<255, 255, 255, 255, 255, 255, 255, 255>>,
      <<128, 0, 0, 0, 0, 0, 0, 1>>,
      <<255, 255, 255, 255, 255, 255>>,
      <<18, 52, 214>>,
      <<165>>,
      <<>> }

FrameLine(timestamp, can_id, dlc, bytes) ==
    [kind |-> "frame", timestamp |-> timestamp, direction |-> "Rx", channel |-> <<1>>,
     can_id |-> can_id, dlc |-> dlc, data_str |-> HexPairs(bytes)]

JunkLine == [kind |-> "junk"]

BlankLine == [kind |-> "blank"]

\* every payload under a declared length of 8, two of them also under their own
\* length, and a line that does not match
DLogLines ==
    {FrameLine(1, <<1, 3, 6>>, <<8>>, p) : p \in Payloads}
      \cup {FrameLine(1, <<1, 3, 6>>, <<Len(p)>>, p) : p \in {<<18, 52, 214>>, <<>>}}
      \cup {JunkLine}

DSignals ==
    {DBCSignal("S", sb, sz, le, sg, fo[1], fo[2], 0, 0, "") :
        sb \in 0..MaxStartBit, sz \in 0..MaxBitSize,
        le \in BOOLEAN, sg \in BOOLEAN, fo \in {<<1, 0>>, <<2, -3>>}}

ConvIdle ==
    /\ pc = "idle" /\ messages = <<>> /\ current_message = NoMessage /\ dbc_lines = 0
    /\ can_messages = <<>> /\ line_num = 0 /\ all_signals = <<>> /\ rrow = 0
    /\ row = <<>> /\ csv = <<>> /\ frame_idx = 0

DInit ==
    /\ d_pc = "parse"
    /\ d_line \in DLogLines
    /\ d_signal \in DSignals
    /\ d_message = NoMatch
    /\ d_value = None
    /\ ConvIdle

D_ParseLine ==
    /\ d_pc = "parse"
    /\ d_message' = parse_log_line(d_line)
    /\ d_pc' = IF d_message'.matched THEN "decode" ELSE "skipped"
    /\ UNCHANGED <<d_line, d_signal, d_value>>
    /\ UNCHANGED convVars

D_Decode ==
    /\ d_pc = "decode"
    /\ d_value' = extract_signal_value(d_message.data, d_signal)
    /\ d_pc' = "done"
    /\ UNCHANGED <<d_line, d_signal, d_message>>
    /\ UNCHANGED convVars

DNext == D_ParseLine \/ D_Decode

SpecDecode == DInit /\ [][DNext]_vars

(***************************************************************************)
(* The conversion: the DBC file is read, then the log, then the rows are   *)
(* written.  Line n of the log carries timestamp n.                        *)
(***************************************************************************)
BOLine(can_id, name, dlc) == [kind |-> "BO", can_id |-> can_id, name |-> name, dlc |-> dlc]

SGLine(name, start, size, endian, sign, factor, offset, minimum, maximum) ==
    [kind |-> "SG", name |-> name, start_bit |-> start, size |-> size, endian |-> endian,
     sign |-> sign, factor |-> factor, offset |-> offset, minimum |-> minimum,
     maximum |-> maximum, unit |-> ""]

OtherLine == [kind |-> "other"]

DbcLines ==
    { BOLine(<<2, 5, 6>>, "M1", <<8>>),
      BOLine(<<5, 1, 2>>, "M2", <<8>>),
      SGLine("A", <<0>>, <<8>>, "1", "+", EmptyText, NumText(0), NumText(0), NumText(255)),
      SGLine("B", <<0>>, <<1, 6>>, "0", "-", NumText(2), NumText(5), BadText, NumText(0)),
      SGLine("C", <<8>>, <<8>>, "1", "-", NumText(2), NumText(-3), NumText(0), EmptyText),
      OtherLine }

LogLinesAt(n) ==
    { FrameLine(n, <<1, 0, 0>>, <<8>>, <<19, 36, 194, 161, 0, 0, 144, 255>>),
      FrameLine(n, <<2, 0, 0>>, <<8>>, <<255, 128, 255, 255, 255, 255>>),
      FrameLine(n, <<3, 0, 0>>, <<8>>, <<255, 255, 255, 255, 255, 255, 255, 255>>),
      JunkLine,
      BlankLine }

NoRow == <<>>

DecIdle ==
    /\ d_pc = "idle" /\ d_line = JunkLine /\ d_message = NoMatch /\ d_value = None
    /\ d_signal = DBCSignal("S", 0, 8, TRUE, FALSE, 1, 0, 0, 0, "")

Init ==
    /\ pc = "parse_dbc"
    /\ messages = <<>>
    /\ current_message = NoMessage
    /\ dbc_lines = 0
    /\ can_messages = <<>>
    /\ line_num = 0
    /\ all_signals = <<>>
    /\ rrow = 0
    /\ row = NoRow
    /\ csv = <<>>
    /\ frame_idx = 0
    /\ DecIdle

\* DBCParser.parse_file: one line of the file
ParseDBCLine ==
    /\ pc = "parse_dbc"
    /\ dbc_lines < MaxDbcLines
    /\ \E line \in DbcLines :
          LET r == parse_dbc_line(messages, current_message, line)
          IN  /\ messages' = r.messages
              /\ current_message' = r.current_message
    /\ dbc_lines' = dbc_lines + 1
    /\ UNCHANGED <<pc, can_messages, line_num, all_signals, rrow, row, csv, frame_idx>>
    /\ UNCHANGED decVars

\* end of the DBC file; lines 235-237
EndDBC ==
    /\ pc = "parse_dbc"
    /\ pc' = IF DOMAIN messages = {} THEN "error" ELSE "parse_log"
    /\ UNCHANGED <<messages, current_message, dbc_lines, can_messages, line_num,
                   all_signals, rrow, row, csv, frame_idx>>
    /\ UNCHANGED decVars

\* BusMasterLogParser.parse_file: one line of the file
ParseLogLine ==
    /\ pc = "parse_log"
    /\ line_num < MaxLogLines
    /\ \E line \in LogLinesAt(line_num + 1) :
          LET message == parse_log_line(line)
          IN  can_messages' = IF message.matched THEN Append(can_messages, message)
                              ELSE can_messages
    /\ line_num' = line_num + 1
    /\ UNCHANGED <<pc, messages, current_message, dbc_lines, all_signals, rrow, row,
                   csv, frame_idx>>
    /\ UNCHANGED decVars

\* end of the log file; lines 243-265
EndLog ==
    /\ pc = "parse_log"
    /\ IF Len(can_messages) = 0
       THEN pc' = "error" /\ UNCHANGED <<all_signals, rrow>>
       ELSE /\ pc' = "convert"
            /\ all_signals' = sorted_signal_names(messages)
            /\ rrow' = 0
    /\ UNCHANGED <<messages, current_message, dbc_lines, can_messages, line_num,
                   row, csv, frame_idx>>
    /\ UNCHANGED decVars

\* lines 267-286: one iteration of the loop over can_messages
ProcessFrame ==
    /\ pc = "convert"
    /\ frame_idx < Len(can_messages)
    /\ LET can_message == can_messages[frame_idx + 1]
       IN  /\ row' = row_after(row, rrow, can_message, messages, all_signals)
           /\ rrow' = rrow_after(rrow, can_message, messages)
    /\ csv' = Append(csv, row')
    /\ frame_idx' = frame_idx + 1
    /\ UNCHANGED <<pc, messages, current_message, dbc_lines, can_messages, line_num,
                   all_signals>>
    /\ UNCHANGED decVars

\* line 288: the loop is over
Finish ==
    /\ pc = "convert"
    /\ frame_idx = Len(can_messages)
    /\ pc' = "done"
    /\ UNCHANGED <<messages, current_message, dbc_lines, can_messages, line_num,
                   all_signals, rrow, row, csv, frame_idx>>
    /\ UNCHANGED decVars

Next == ParseDBCLine \/ EndDBC \/ ParseLogLine \/ EndLog \/ ProcessFrame \/ Finish

Spec == Init /\ [][Next]_vars

(***************************************************************************)
(* Properties.                                                             *)
(***************************************************************************)
\* the effective starting bit index s as the specification states it
EffectiveStart(signal) ==
    IF signal.is_little_endian THEN signal.start_bit
    ELSE (signal.start_bit \div 8) * 8 + (7 - (signal.start_bit % 8)) - (signal.size - 1)

\* bit k of the payload read as a little-endian integer, bytes past its end being 0
PayloadBit(payload, k) ==
    IF k \div 8 + 1 <= Len(payload) THEN (payload[k \div 8 + 1] \div 2^(k % 8)) % 2 ELSE 0

ZeroPad8(payload) == [i \in 1..8 |-> IF i <= Len(payload) THEN payload[i] ELSE 0]

\* bit_size >= 1 and the bit range lies within the 64-bit window
DefinitionInvariant(signal) ==
    /\ signal.size >= 1
    /\ EffectiveStart(signal) >= 0
    /\ EffectiveStart(signal) + signal.size <= 64

SignalsOf(can_message) ==
    IF can_message.can_id \in DOMAIN messages THEN messages[can_message.can_id].signals
    ELSE <<>>

\* the cell of a written row that belongs to signal n
Cell(written, n) == written[index(all_signals, n) + 2]

\* C1: the k-th row written belongs to the k-th frame: one row per frame, in
\* input order, and its time cell is that frame's own timestamp.
C1_RowPerFrame ==
    /\ Len(csv) = frame_idx
    /\ pc = "done" => Len(csv) = Len(can_messages)
    /\ \A k \in 1..Len(csv) : csv[k][1] = can_messages[k].timestamp

\* C2: in the row written for a frame a signal cell is non-empty only if that
\* signal was decoded non-absent from that same frame.
C2_NoStaleCell ==
    \A k \in 1..Len(csv) : \A i \in 2..Len(csv[k]) :
        ~csv[k][i].isNone =>
            LET n == all_signals[i - 1]
                signals == SignalsOf(can_messages[k])
            IN  /\ n \in DOMAIN signals
                /\ csv[k][i] = extract_signal_value(can_messages[k].data, signals[n])

\* C3: for a non-empty payload, an effective start bit outside 0..63 (below 0
\* or above 63) makes extract_signal_value return None.
C3_OutOfRangeAbsent ==
    (/\ d_pc = "done"
     /\ Len(d_message.data) > 0
     /\ (EffectiveStart(d_signal) < 0 \/ EffectiveStart(d_signal) > 63))
    => d_value.isNone

\* C4: a signal definition that violates the definition invariant is rejected
\* by DBCParser.parse_file: no message's signals mapping holds one.
C4_InvalidRejected ==
    \A id \in DOMAIN messages : \A n \in DOMAIN messages[id].signals :
        DefinitionInvariant(messages[id].signals[n])

\* C5: fault isolation: every signal of a frame's message that decodes
\* non-absent is in the frame's row with the value it has alone, whatever the
\* other signals of the message do, and every frame of the stream gets a row.
C5_FaultIsolation ==
    /\ Len(csv) = frame_idx
    /\ pc = "done" => Len(csv) = Len(can_messages)
    /\ \A k \in 1..Len(csv) :
          LET signals == SignalsOf(can_messages[k])
          IN  \A n \in DOMAIN signals :
                 LET value == extract_signal_value(can_messages[k].data, signals[n])
                 IN  ~value.isNone => Cell(csv[k], n) = value

\* a frame one of whose signals is absent and another decoded, followed by a
\* further frame that was written too
C5_Witness ==
    \E k \in 1..(Len(csv) - 1) :
        LET signals == SignalsOf(can_messages[k])
        IN  \E n \in DOMAIN signals, m \in DOMAIN signals :
               /\ extract_signal_value(can_messages[k].data, signals[n]).isNone
               /\ ~extract_signal_value(can_messages[k].data, signals[m]).isNone
               /\ ~Cell(csv[k], m).isNone

\* the case C6 is about: payload of 1..8 bytes, bit_size in 1..64, the field
\* within the 64-bit window, factor 1 and offset 0
C6_Case ==
    /\ d_pc = "done"
    /\ Len(d_message.data) \in 1..8
    /\ d_signal.size \in 1..64
    /\ EffectiveStart(d_signal) >= 0
    /\ EffectiveStart(d_signal) + d_signal.size <= 64
    /\ d_signal.factor = 1 /\ d_signal.offset = 0

C7_ZeroPadding ==
    /\ (d_pc = "done" /\ Len(d_message.data) \in 1..7) =>
          /\ d_value = extract_signal_value(ZeroPad8(d_message.data), d_signal)
          /\ (/\ d_signal.is_little_endian
              /\ d_signal.size >= 1
              /\ d_signal.start_bit >= 8 * Len(d_message.data)
              /\ d_signal.start_bit + d_signal.size <= 64)
                => d_value = IntOfSmall(d_signal.offset)
    /\ (d_pc # "parse" /\ d_line.kind = "frame") =>
          /\ d_message.matched
          /\ d_message.dlc = int(d_line.dlc, 10)
          /\ d_message.data = fromhex(d_line.data_str)

\* declared length 8, six payload bytes, a field in the two missing bytes
C7_Witness ==
    /\ d_pc = "done"
    /\ d_message.dlc = 8 /\ Len(d_message.data) = 6
    /\ d_signal.is_little_endian /\ d_signal.start_bit = 48 /\ d_signal.size = 16
    /\ d_signal.offset = -3
    /\ d_value = IntOfSmall(-3)

\* C8: on an empty payload extract_signal_value returns None for every signal
\* definition, valid or not.
C8_EmptyPayloadAbsent ==
    (d_pc = "done" /\ Len(d_message.data) = 0) => d_value.isNone

\* an empty payload and a signal that padding alone would decode to its offset
C8_Witness ==
    /\ d_pc = "done"
    /\ Len(d_message.data) = 0
    /\ d_signal.is_little_endian /\ ~d_signal.is_signed
    /\ d_signal.start_bit = 0 /\ d_signal.size = 8
    /\ ~extract_signal_value(ZeroPad8(d_message.data), d_signal).isNone
    /\ d_value.isNone

\* C9: a frame whose can_id has no definition leaves the success counter as it
\* was and writes no signal cell of the row; its row is written and the loop
\* goes on to the next frame.
C9_UnknownIdNoEffect ==
    [][(/\ pc = "convert"
        /\ frame_idx' # frame_idx
        /\ can_messages[frame_idx + 1].can_id \notin DOMAIN messages)
       => /\ rrow' = rrow
          /\ \A i \in 2..Len(row') :
                ~row'[i].isNone => (row # NoRow /\ row'[i] = row[i])
          /\ csv' = Append(csv, row')
          /\ frame_idx' = frame_idx + 1
          /\ pc' = "convert"]_vars

\* a frame with an unknown can_id was processed, and the frame after it too
C9_Witness ==
    /\ frame_idx >= 2
    /\ can_messages[frame_idx - 1].can_id \notin DOMAIN messages
    /\ Len(csv) = frame_idx
    /\ DOMAIN messages # {}

\* C10: the row buffer is re-initialised at a frame exactly when rrow is 0 on
\* entry; otherwise the frame overwrites cells of the same buffer; rrow grows by
\* one per non-absent decode and never decreases.
C10_RowReinit ==
    [][/\ rrow' >= rrow
       /\ (pc = "convert" /\ frame_idx' # frame_idx) =>
             LET can_message == can_messages[frame_idx + 1]
                 signals == SignalsOf(can_message)
                 hit == {n \in DOMAIN signals :
                            ~extract_signal_value(can_message.data, signals[n]).isNone}
                 untouched == {i \in 2..Len(row') : all_signals[i - 1] \notin hit}
             IN  /\ rrow' = rrow + Cardinality(hit)
                 /\ rrow = 0 => /\ row'[1] = can_message.timestamp
                                /\ \A i \in untouched : row'[i].isNone
                 /\ rrow # 0 => /\ row'[1] = row[1]
                                /\ \A i \in untouched : row'[i] = row[i]]_vars

\* the buffer of an earlier frame is still in use after a later frame
C10_Witness ==
    /\ frame_idx >= 2
    /\ rrow > 0
    /\ row[1] # can_messages[frame_idx].timestamp
    /\ \E i \in 2..Len(row) : ~row[i].isNone

====
